---------------------------- MODULE Spec2Model ----------------------------
(***************************************************************************)
(* Peripheral state and recovery engine of the Topographic-Robot HAL:      *)
(*   - the PCA9685 board registry (pca9685_hal.c),                         *)
(*   - the MPU6050 device state machine (mpu6050_hal.c),                   *)
(*   - the DHT22 exponential-backoff recovery controller (declared and     *)
(*     documented in dht22_hal.h; its body is not part of the sources).    *)
(* Every public function is one action; bus transactions and allocation    *)
(* are external and may fail, which the actions take as inputs.            *)
(* Where tasks run side by side, pca9685_init, the pca9685_set_angle       *)
(* lookup and mpu6050_read are also followed statement by statement.       *)
(***************************************************************************)
EXTENDS Integers, Sequences, FiniteSets, TLC

VARIABLES
  controller_data,        \* PCA9685 registry: list of boards, head first
  pca_ret,                \* esp_err_t returned by the last pca9685_* call
  pca_log,                \* bus transactions issued by the last pca9685_* call
  pca_call,               \* the last pca9685_* call and its inputs
  mpu_state,              \* mpu6050_data_t.state
  mpu_reading,            \* mpu6050_data_t accel_x..gyro_z
  mpu_retry_count,        \* recovery bookkeeping of the MPU6050 instance (the
  mpu_retry_interval,     \* design gives every device instance these three);
  mpu_last_attempt_ticks, \* no statement of mpu6050_hal.c assigns them
  mpu_ret,                \* esp_err_t returned by the last mpu6050_init
  mpu_log,                \* bus transactions issued by the last mpu6050_* call
  mpu_call,               \* the last mpu6050_* call and its inputs
  dht_state,              \* dht22_data_t.state
  dht_retry_count,        \* dht22_data_t.retry_count
  dht_retry_interval,     \* dht22_data_t.retry_interval
  dht_last_attempt_ticks, \* dht22_data_t.last_attempt_ticks
  dht_call,               \* the last dht22_* call and its inputs
  now,                    \* xTaskGetTickCount()
  pca_job,                \* a pca9685_init call followed statement by statement
  pca_cursor,             \* a pca9685_set_angle lookup followed node by node
  mpu_job,                \* an mpu6050_read call followed store by store
  mpu_pc,                 \* where mpu6050_tasks stands in its loop
  bus_healed              \* the MPU6050 bus has stopped failing for good

pca_vars == <<controller_data, pca_ret, pca_log, pca_call>>
mpu_vars == <<mpu_state, mpu_reading, mpu_retry_count, mpu_retry_interval,
              mpu_last_attempt_ticks, mpu_ret, mpu_log, mpu_call>>
dht_vars == <<dht_state, dht_retry_count, dht_retry_interval,
              dht_last_attempt_ticks, dht_call>>
\* The variables of the statement-level views: they stay as they are in
\* every action that takes a whole call as one step.
conc_vars == <<pca_job, pca_cursor, mpu_job, mpu_pc, bus_healed>>
vars == <<pca_vars, mpu_vars, dht_vars, now, conc_vars>>

(***************************************************************************)
(* Bounds of the model.                                                    *)
(***************************************************************************)
MaxBoards == 3      \* largest num_boards passed to pca9685_init
MaxTick == 12       \* the tick counter is followed up to this value
MaxFailAt == 3      \* a pca9685_set_angle write up to this one may fail
MaxAngle == 181     \* the angle sweep runs over 0..MaxAngle whole degrees

\* The recovery policy's configuration (dht22_hal.c sets the values, which the
\* sources do not include): small values, in ticks.
dht22_max_retries == 2
dht22_initial_retry_interval == 2
dht22_max_backoff_interval == 8

(***************************************************************************)
(* esp_err_t values.  BusErrors are what a bus primitive may return.       *)
(***************************************************************************)
ESP_OK == "ESP_OK"
ESP_FAIL == "ESP_FAIL"
ESP_ERR_NO_MEM == "ESP_ERR_NO_MEM"
ESP_ERR_INVALID_ARG == "ESP_ERR_INVALID_ARG"
ESP_ERR_NOT_FOUND == "ESP_ERR_NOT_FOUND"
ESP_ERR_TIMEOUT == "ESP_ERR_TIMEOUT"
BusErrors == {ESP_FAIL, ESP_ERR_TIMEOUT}

RECURSIVE BitAnd(_, _)
BitAnd(a, b) ==
  IF a = 0 \/ b = 0 THEN 0
  ELSE (a % 2) * (b % 2) + 2 * BitAnd(a \div 2, b \div 2)

Min(a, b) == IF a <= b THEN a ELSE b

SeqToSet(s) == {s[k] : k \in 1..Len(s)}

(***************************************************************************)
(* PCA9685 registry                                                        *)
(***************************************************************************)
pca9685_i2c_address == 64
pca9685_osc_freq == 25000000
pca9685_pwm_resolution == 4096
pca9685_default_pwm_freq == 50
pca9685_max_pwm_value == 4095

k_pca9685_ready == "k_pca9685_ready"

\* priv_calculate_prescaler: uint32 division, result narrowed to uint8_t
priv_calculate_prescaler(pwm_freq) ==
  ((pca9685_osc_freq \div (pca9685_pwm_resolution * pwm_freq)) - 1) % 256

\* One bus transaction: the primitive, the bus address it targets, the byte
\* written (a named command of pca9685_hal.h, or a computed value in val).
Tx(op, addr, what, val) == [op |-> op, addr |-> addr, what |-> what, val |-> val]

\* What the environment does to one pca9685_init call: nothing fails, or one
\* step of one unit fails with an error.  The call returns at its first
\* failure, so one failure per call covers every run of the loop.
NoFail == [unit |-> -1, step |-> "none", err |-> ESP_OK]

PcaFailures ==
  {NoFail}
  \cup {[unit |-> u, step |-> "malloc", err |-> ESP_ERR_NO_MEM] :
          u \in 0..(MaxBoards - 1)}
  \cup {[unit |-> u, step |-> s, err |-> e] :
          u \in 0..(MaxBoards - 1),
          s \in {"i2c_init", "sleep", "prescale_cmd", "prescale_val", "restart"},
          e \in BusErrors}

\* The step of unit i that fails ("none" when unit i initializes cleanly).
FailStep(fail, i) == IF fail.unit = i THEN fail.step ELSE "none"

\* The transactions one board's initialization issues, in order.
PcaInitTxs(bus) ==
  <<Tx("i2c_init", bus, "config", 0),
    Tx("write_byte", bus, "mode1|sleep", 0),
    Tx("write_byte", bus, "prescale_cmd", 0),
    Tx("write_byte", bus, "prescaler", priv_calculate_prescaler(pca9685_default_pwm_freq)),
    Tx("write_byte", bus, "mode1|restart", 0)>>

\* Number of transactions issued when the given step is the one that fails
\* (the failing transaction itself is issued; malloc is not a transaction).
PcaTxCount(step) ==
  CASE step = "malloc" -> 0
    [] step = "i2c_init" -> 1
    [] step = "sleep" -> 2
    [] step = "prescale_cmd" -> 3
    [] step = "prescale_val" -> 4
    [] OTHER -> 5

\* The lookup loop of pca9685_init and pca9685_set_angle: index of the first
\* entry with the board id, 0 for NULL (not found).
RECURSIVE FindFrom(_, _, _)
FindFrom(list, k, id) ==
  IF k > Len(list) THEN 0
  ELSE IF list[k].board_id = id THEN k
  ELSE FindFrom(list, k + 1, id)

\* Mutant: the scan starts at the second entry.
FindBoard_SkipHead(list, id) == FindFrom(list, 2, id)

FindBoard(list, id) == FindFrom(list, 1, id)

\* Mutant: the entry records its own id where the count belongs.
NewBoard_CountIsId(i, num_boards) ==
  [board_id |-> i, i2c_bus |-> pca9685_i2c_address + i,
   state |-> k_pca9685_ready, num_boards |-> i]

\* Lines 104-109: the new board, linked in at the head.
NewBoard(i, num_boards) ==
  [board_id |-> i, i2c_bus |-> pca9685_i2c_address + i,
   state |-> k_pca9685_ready, num_boards |-> num_boards]

\* Mutant: the new board's next link is left NULL.
LinkBoard_DropTail(list, board) == <<board>>

LinkBoard(list, board) == <<board>> \o list

\* Mutant: on a failure that is not an allocation failure the board is
\* linked in anyway before the error is returned.
RECURSIVE pca9685_init_from_LinkOnFail(_, _, _, _, _)
pca9685_init_from_LinkOnFail(list, log, i, num_boards, fail) ==
  IF i >= num_boards
  THEN [list |-> list, log |-> log, ret |-> ESP_OK]
  ELSE IF FindBoard(list, i) # 0
  THEN pca9685_init_from_LinkOnFail(list, log, i + 1, num_boards, fail)
  ELSE LET txs == SubSeq(PcaInitTxs(pca9685_i2c_address + i), 1,
                         PcaTxCount(FailStep(fail, i)))
       IN IF FailStep(fail, i) = "malloc"
          THEN [list |-> list, log |-> log \o txs, ret |-> fail.err]
          ELSE IF FailStep(fail, i) # "none"
          THEN [list |-> LinkBoard(list, NewBoard(i, num_boards)),
                log |-> log \o txs, ret |-> fail.err]
          ELSE pca9685_init_from_LinkOnFail(LinkBoard(list, NewBoard(i, num_boards)),
                                            log \o txs, i + 1, num_boards, fail)

\* Body of the for loop of pca9685_init from unit i on.
RECURSIVE pca9685_init_from(_, _, _, _, _)
pca9685_init_from(list, log, i, num_boards, fail) ==
  IF i >= num_boards
  THEN [list |-> list, log |-> log, ret |-> ESP_OK]
  ELSE IF FindBoard(list, i) # 0
  THEN pca9685_init_from(list, log, i + 1, num_boards, fail)
  ELSE LET txs == SubSeq(PcaInitTxs(pca9685_i2c_address + i), 1,
                         PcaTxCount(FailStep(fail, i)))
       IN IF FailStep(fail, i) # "none"
          THEN [list |-> list, log |-> log \o txs, ret |-> fail.err]
          ELSE pca9685_init_from(LinkBoard(list, NewBoard(i, num_boards)),
                                 log \o txs, i + 1, num_boards, fail)

\* The record of a pca9685_* call: pca9685_init's num_boards and failure,
\* pca9685_set_angle's motor_mask, board_id, angle and failing write.
PcaCall(op, num_boards, fail, motor_mask, board_id, angle, fail_at) ==
  [op |-> op, num_boards |-> num_boards, fail |-> fail,
   motor_mask |-> motor_mask, board_id |-> board_id, angle |-> angle,
   fail_at |-> fail_at]

pca9685_init(num_boards, fail) ==
  LET r == pca9685_init_from(controller_data, <<>>, 0, num_boards, fail)
  IN /\ controller_data' = r.list
     /\ pca_ret' = r.ret
     /\ pca_log' = r.log
     /\ pca_call' = PcaCall("init", num_boards, fail, 0, 0, 0, 0)
     /\ UNCHANGED <<mpu_vars, dht_vars, now>>

PcaInit ==
  /\ \E num_boards \in 0..MaxBoards :
        \E fail \in PcaFailures :
          pca9685_init(num_boards, fail)
  /\ UNCHANGED conc_vars

(***************************************************************************)
(* pca9685_set_angle                                                       *)
(***************************************************************************)
\* Mutant: the division is done on integers before the multiplication.
PulseLength_DivideFirst(angle) ==
  ((angle \div 180) * pca9685_max_pwm_value) % 65536

\* Line 141: (uint16_t)((angle / 180.0f) * pca9685_max_pwm_value) for an
\* angle in whole degrees.  For every whole degree from 0 to 200 the float
\* product truncates to the same integer as the exact quotient.
PulseLength(angle) == ((angle * pca9685_max_pwm_value) \div 180) % 65536

\* Line 146: motor_mask & (1 << channel)
MaskHas(motor_mask, channel) == (motor_mask \div (2 ^ channel)) % 2 = 1

\* Lines 147-172: the three byte writes of one channel.  The first byte is
\* the channel's ON_L command, k_pca9685_channel0_on_l_cmd + 4 * channel
\* (val holds the offset), then the low and the high byte of the pulse.
ChannelTxs(bus, channel, pulse_length) ==
  <<Tx("write_byte", bus, "on_l_cmd", 4 * channel),
    Tx("write_byte", bus, "off_low", pulse_length % 256),
    Tx("write_byte", bus, "off_high", (pulse_length \div 256) % 256)>>

\* Mutant: the loop stops one channel early (channel < 15).
RECURSIVE MaskTxs_Skip15(_, _, _, _)
MaskTxs_Skip15(bus, motor_mask, pulse_length, channel) ==
  IF channel >= 15 THEN <<>>
  ELSE (IF MaskHas(motor_mask, channel)
        THEN ChannelTxs(bus, channel, pulse_length) ELSE <<>>)
       \o MaskTxs_Skip15(bus, motor_mask, pulse_length, channel + 1)

\* Lines 144-174: the writes of the channels from `channel` on, ascending.
RECURSIVE MaskTxs(_, _, _, _)
MaskTxs(bus, motor_mask, pulse_length, channel) ==
  IF channel >= 16 THEN <<>>
  ELSE (IF MaskHas(motor_mask, channel)
        THEN ChannelTxs(bus, channel, pulse_length) ELSE <<>>)
       \o MaskTxs(bus, motor_mask, pulse_length, channel + 1)

\* What the bus does to one pca9685_set_angle call: every write succeeds
\* (at = 0), or the write number `at` fails with an error.
NoWriteFail == [at |-> 0, err |-> ESP_OK]

SetAngleFailures ==
  {NoWriteFail} \cup {[at |-> k, err |-> ESP_ERR_TIMEOUT] : k \in 1..MaxFailAt}

\* Mutant: a failed write is logged and the loop goes on; the call returns
\* the error after the last channel.
WritesUntilFailure_GoOn(txs, fail) ==
  IF fail.at \in 1..Len(txs)
  THEN [ret |-> fail.err, log |-> txs]
  ELSE [ret |-> ESP_OK, log |-> txs]

\* The writes issued and the value returned when write `fail.at` fails.
WritesUntilFailure(txs, fail) ==
  IF fail.at \in 1..Len(txs)
  THEN [ret |-> fail.err, log |-> SubSeq(txs, 1, fail.at)]
  ELSE [ret |-> ESP_OK, log |-> txs]

\* Mutant: the range test against num_boards is missing.
BoardIdInvalid_NoCheck(list, board_id) == FALSE

\* Lines 123-128: board_id >= controller_data->num_boards (the head's).
BoardIdInvalid(list, board_id) == board_id >= list[1].num_boards

pca9685_set_angle_result(list, motor_mask, board_id, angle, fail) ==
  IF list = <<>>
  THEN [ret |-> ESP_ERR_INVALID_ARG, log |-> <<>>]
  ELSE IF BoardIdInvalid(list, board_id)
  THEN [ret |-> ESP_ERR_INVALID_ARG, log |-> <<>>]
  ELSE IF FindBoard(list, board_id) = 0
  THEN [ret |-> ESP_ERR_NOT_FOUND, log |-> <<>>]
  ELSE IF list[FindBoard(list, board_id)].state # k_pca9685_ready
  THEN [ret |-> ESP_FAIL, log |-> <<>>]
  ELSE WritesUntilFailure(
         MaskTxs(list[FindBoard(list, board_id)].i2c_bus, motor_mask,
                 PulseLength(angle), 0),
         fail)

pca9685_set_angle(motor_mask, board_id, angle, fail) ==
  LET r == pca9685_set_angle_result(controller_data, motor_mask, board_id,
                                    angle, fail)
  IN /\ pca_ret' = r.ret
     /\ pca_log' = r.log
     /\ pca_call' = PcaCall("set_angle", 0,
                            [unit |-> -1,
                             step |-> IF fail.at = 0 THEN "none" ELSE "write",
                             err |-> fail.err],
                            motor_mask, board_id, angle, fail.at)
     /\ UNCHANGED <<controller_data, mpu_vars, dht_vars, now>>

\* Channel masks, angles (whole degrees) and board ids the callers pass.
Masks == {0, 9, 32769}
Angles == {90, 181}

\* Start-up as the command path sees it: pca9685_init with the bus refusing
\* at most one unit at its i2c_init step.
SetupFailures ==
  {NoFail} \cup {[unit |-> u, step |-> "i2c_init", err |-> ESP_FAIL] :
                   u \in 0..(MaxBoards - 1)}

PcaSetup ==
  /\ \E num_boards \in 1..MaxBoards :
        \E fail \in {f \in SetupFailures : f.unit < num_boards} :
          pca9685_init(num_boards, fail)
  /\ UNCHANGED conc_vars

PcaSetAngle ==
  /\ \E motor_mask \in Masks : \E board_id \in 0..MaxBoards :
        \E angle \in Angles : \E fail \in SetAngleFailures :
          pca9685_set_angle(motor_mask, board_id, angle, fail)
  /\ UNCHANGED conc_vars

(***************************************************************************)
(* MPU6050 device state machine                                            *)
(***************************************************************************)
\* mpu6050_states_t.  mpu6050_hal.h is not among the sources; the values
\* follow the sibling enumeration dht22_states_t (ready 0x00, updated 0x01,
\* uninitialized 0x10, error 0xF0) with the specific errors in the error
\* nibble, as the bit-flag encoding of the design requires.
k_mpu6050_ready == 0
k_mpu6050_data_updated == 1
k_mpu6050_uninitialized == 16
k_mpu6050_error == 240
k_mpu6050_power_on_error == 161
k_mpu6050_reset_error == 162

k_mpu6050_who_am_i_response == 104
mpu6050_i2c_address == 104

\* Sensitivities of the chosen ranges (index 3 of both tables), times ten:
\* 2048.0 LSB/g and 16.4 LSB/(deg/s).
mpu6050_accel_scale_x10 == 20480
mpu6050_gyro_scale_x10 == 164

RECURSIVE Gcd(_, _)
Gcd(a, b) == IF b = 0 THEN a ELSE Gcd(b, a % b)

Abs(x) == IF x < 0 THEN -x ELSE x

\* The quotient n/d as a reduced fraction; stands for the float the code
\* computes, so that equal quotients are equal values.
Quot(n, d) ==
  LET g == Gcd(Abs(n), d)
  IN [num |-> n \div g, den |-> d \div g]

Zero == Quot(0, 1)

\* Mutant: the 16-bit value is not reinterpreted as signed.
Int16_Unsigned(hi, lo) == hi * 256 + lo

\* (int16_t)((hi << 8) | lo)
Int16(hi, lo) ==
  LET u == hi * 256 + lo
  IN IF u >= 32768 THEN u - 65536 ELSE u

\* Lines 211-231: the six fields computed from the two register blocks.
ConvertReading(accel_data, gyro_data) ==
  [accel_x |-> Quot(Int16(accel_data[1], accel_data[2]) * 10, mpu6050_accel_scale_x10),
   accel_y |-> Quot(Int16(accel_data[3], accel_data[4]) * 10, mpu6050_accel_scale_x10),
   accel_z |-> Quot(Int16(accel_data[5], accel_data[6]) * 10, mpu6050_accel_scale_x10),
   gyro_x |-> Quot(Int16(gyro_data[1], gyro_data[2]) * 10, mpu6050_gyro_scale_x10),
   gyro_y |-> Quot(Int16(gyro_data[3], gyro_data[4]) * 10, mpu6050_gyro_scale_x10),
   gyro_z |-> Quot(Int16(gyro_data[5], gyro_data[6]) * 10, mpu6050_gyro_scale_x10)]

\* Lines 87-88: every field 0.0f.
ZeroReading ==
  [accel_x |-> Zero, accel_y |-> Zero, accel_z |-> Zero,
   gyro_x |-> Zero, gyro_y |-> Zero, gyro_z |-> Zero]

\* Register blocks the bus may deliver (six bytes each).
Blocks ==
  {<<0, 0, 0, 0, 0, 0>>,
   <<0, 1, 128, 0, 255, 255>>,
   <<127, 255, 8, 0, 248, 0>>}

\* Values the WHO_AM_I register may deliver.
WhoAmIValues == {k_mpu6050_who_am_i_response, 0}

\* The transactions of mpu6050_init, in program order.
MpuInitSteps ==
  <<"i2c_init", "power_on", "reset", "wake", "smplrt_div", "dlpf",
    "gyro_config", "accel_config", "who_am_i">>

MpuNoFail == [step |-> "none", err |-> ESP_OK]

MpuInitFailures ==
  {MpuNoFail}
  \cup {[step |-> MpuInitSteps[k], err |-> e] :
          k \in 1..Len(MpuInitSteps), e \in BusErrors}

RECURSIVE IndexOf(_, _, _)
IndexOf(seq, x, k) ==
  IF k > Len(seq) THEN 0
  ELSE IF seq[k] = x THEN k
  ELSE IndexOf(seq, x, k + 1)

\* Mutant: the sequence runs to its end whatever fails.
MpuInitLog_RunsOn(fail) == MpuInitSteps

\* The transactions mpu6050_init issues when `fail` is what the bus does:
\* everything up to and including the failing one.
MpuInitLog(fail) ==
  IF fail.step = "none" THEN MpuInitSteps
  ELSE SubSeq(MpuInitSteps, 1, IndexOf(MpuInitSteps, fail.step, 1))

\* The state mpu6050_init leaves when the given step fails.
MpuInitFailState(step) ==
  CASE step = "power_on" -> k_mpu6050_power_on_error
    [] step = "reset" -> k_mpu6050_reset_error
    [] step = "wake" -> k_mpu6050_power_on_error
    [] OTHER -> k_mpu6050_uninitialized

\* mpu6050_init: the state it leaves, the value it returns, the transactions
\* it issues.  `who` is the byte the WHO_AM_I read delivers when it succeeds.
mpu6050_init_result(fail, who) ==
  IF fail.step # "none"
  THEN [state |-> MpuInitFailState(fail.step), ret |-> fail.err,
        log |-> MpuInitLog(fail)]
  ELSE IF who # k_mpu6050_who_am_i_response
  THEN [state |-> k_mpu6050_uninitialized, ret |-> ESP_OK,
        log |-> MpuInitLog(fail)]
  ELSE [state |-> k_mpu6050_ready, ret |-> ESP_OK, log |-> MpuInitLog(fail)]

MpuCall(op, fail, who, accel, gyro) ==
  [op |-> op, fail |-> fail, who |-> who, accel |-> accel, gyro |-> gyro]

NoBlock == <<0, 0, 0, 0, 0, 0>>

mpu6050_init(fail, who) ==
  LET r == mpu6050_init_result(fail, who)
  IN /\ mpu_state' = r.state
     /\ mpu_reading' = ZeroReading
     /\ mpu_ret' = r.ret
     /\ mpu_log' = r.log
     /\ mpu_call' = MpuCall("init", fail, who, NoBlock, NoBlock)
     /\ UNCHANGED <<mpu_retry_count, mpu_retry_interval, mpu_last_attempt_ticks>>
     /\ UNCHANGED <<pca_vars, dht_vars, now>>

MpuInit ==
  /\ \E fail \in MpuInitFailures : \E who \in WhoAmIValues :
        mpu6050_init(fail, who)
  /\ UNCHANGED conc_vars

\* What the bus does to the two block reads of mpu6050_read.
MpuReadFailures ==
  {MpuNoFail} \cup {[step |-> s, err |-> e] : s \in {"accel", "gyro"}, e \in BusErrors}

mpu6050_read_log(fail) ==
  IF fail.step = "accel" THEN <<"accel_xout">> ELSE <<"accel_xout", "gyro_xout">>

mpu6050_read_state(fail) ==
  IF fail.step # "none" THEN k_mpu6050_error ELSE k_mpu6050_data_updated

\* Mutant: the accelerometer fields are stored as soon as their block is
\* read, before the gyroscope block is attempted.
mpu6050_read_reading_Merge(old, fail, accel_data, gyro_data) ==
  IF fail.step = "accel" THEN old
  ELSE IF fail.step = "gyro"
  THEN [old EXCEPT !.accel_x = ConvertReading(accel_data, gyro_data).accel_x,
                   !.accel_y = ConvertReading(accel_data, gyro_data).accel_y,
                   !.accel_z = ConvertReading(accel_data, gyro_data).accel_z]
  ELSE ConvertReading(accel_data, gyro_data)

mpu6050_read_reading(old, fail, accel_data, gyro_data) ==
  IF fail.step # "none" THEN old ELSE ConvertReading(accel_data, gyro_data)

\* The device structure always exists, so the NULL test of line 185 never
\* takes its early return.
mpu6050_read(fail, accel_data, gyro_data) ==
  /\ mpu_state' = mpu6050_read_state(fail)
  /\ mpu_reading' = mpu6050_read_reading(mpu_reading, fail, accel_data, gyro_data)
  /\ mpu_log' = mpu6050_read_log(fail)
  /\ mpu_call' = MpuCall("read", fail, 0, accel_data, gyro_data)
  /\ UNCHANGED <<mpu_ret, mpu_retry_count, mpu_retry_interval, mpu_last_attempt_ticks>>
  /\ UNCHANGED <<pca_vars, dht_vars, now>>

MpuRead ==
  /\ \E fail \in MpuReadFailures : \E accel_data \in Blocks : \E gyro_data \in Blocks :
        mpu6050_read(fail, accel_data, gyro_data)
  /\ UNCHANGED conc_vars

\* Line 243: state & k_mpu6050_error
MpuErrorDetected(state) == BitAnd(state, k_mpu6050_error) # 0

\* Mutant: the reset error is OR-ed into the general error flag
\* (k_mpu6050_error | k_mpu6050_reset_error = 0xF2).
MpuStateAfterReset_OrFlags(ret) ==
  IF ret = ESP_OK THEN k_mpu6050_ready ELSE 242

\* Lines 247-255: the state after the re-initialization returned `ret`.
MpuStateAfterReset(ret) ==
  IF ret = ESP_OK THEN k_mpu6050_ready ELSE k_mpu6050_reset_error

mpu6050_reset_on_error(fail, who) ==
  IF MpuErrorDetected(mpu_state)
  THEN LET r == mpu6050_init_result(fail, who)
       IN /\ mpu_state' = MpuStateAfterReset(r.ret)
          /\ mpu_reading' = ZeroReading
          /\ mpu_ret' = r.ret
          /\ mpu_log' = r.log
          /\ mpu_call' = MpuCall("reset_on_error", fail, who, NoBlock, NoBlock)
          /\ UNCHANGED <<mpu_retry_count, mpu_retry_interval, mpu_last_attempt_ticks>>
          /\ UNCHANGED <<pca_vars, dht_vars, now>>
  ELSE /\ mpu_log' = <<>>
       /\ mpu_call' = MpuCall("reset_on_error", MpuNoFail, 0, NoBlock, NoBlock)
       /\ UNCHANGED <<mpu_state, mpu_reading, mpu_ret, mpu_retry_count,
                      mpu_retry_interval, mpu_last_attempt_ticks>>
       /\ UNCHANGED <<pca_vars, dht_vars, now>>

MpuResetOnError ==
  /\ \E fail \in MpuInitFailures : \E who \in WhoAmIValues :
        mpu6050_reset_on_error(fail, who)
  /\ UNCHANGED conc_vars

\* The tick counter advances (vTaskDelay in the task loops).
Tick ==
  /\ now < MaxTick
  /\ now' = now + 1
  /\ UNCHANGED <<pca_vars, mpu_vars, dht_vars, conc_vars>>

(***************************************************************************)
(* DHT22 recovery controller.  dht22_hal.h declares and documents          *)
(* dht22_init, dht22_read and dht22_reset_on_error; their bodies are not   *)
(* among the sources and are modelled from the design's recovery policy.   *)
(***************************************************************************)
k_dht22_ready == 0
k_dht22_data_updated == 1
k_dht22_uninitialized == 16
k_dht22_error == 240

\* The only error variant of dht22_states_t.
DhtIsError(state) == state = k_dht22_error

dht22_init(ok) ==
  /\ dht_state = k_dht22_uninitialized
  /\ dht_state' = IF ok THEN k_dht22_ready ELSE k_dht22_error
  /\ dht_call' = [op |-> "init", ok |-> ok, attempted |-> FALSE]
  /\ UNCHANGED <<dht_retry_count, dht_retry_interval, dht_last_attempt_ticks>>
  /\ UNCHANGED <<pca_vars, mpu_vars, now>>

DhtInit ==
  /\ \E ok \in BOOLEAN : dht22_init(ok)
  /\ UNCHANGED conc_vars

dht22_read(ok) ==
  /\ dht_state' = IF ok THEN k_dht22_data_updated ELSE k_dht22_error
  /\ dht_call' = [op |-> "read", ok |-> ok, attempted |-> FALSE]
  /\ UNCHANGED <<dht_retry_count, dht_retry_interval, dht_last_attempt_ticks>>
  /\ UNCHANGED <<pca_vars, mpu_vars, now>>

DhtRead ==
  /\ \E ok \in BOOLEAN : dht22_read(ok)
  /\ UNCHANGED conc_vars

\* Elapsed ticks since the last attempt.  The counter never wraps within
\* MaxTick, so the unsigned difference is the plain one.
Elapsed(t, last) == t - last

\* retry_interval after an attempt made with the given count and interval.
DhtIntervalAfter(ok, interval, count) ==
  IF ok THEN dht22_initial_retry_interval
  ELSE IF count + 1 >= dht22_max_retries
  THEN Min(interval * 2, dht22_max_backoff_interval)
  ELSE interval

\* Mutant: a successful re-initialization leaves the retry count alone.
DhtCountAfter_KeptOnSuccess(ok, count) ==
  IF ok THEN count
  ELSE IF count + 1 >= dht22_max_retries THEN 0
  ELSE count + 1

\* retry_count after an attempt made with the given count.
DhtCountAfter(ok, count) ==
  IF ok THEN 0
  ELSE IF count + 1 >= dht22_max_retries THEN 0
  ELSE count + 1

\* Whether a recovery call attempts re-initialization now.
DhtDue(state, t, last, interval) ==
  DhtIsError(state) /\ Elapsed(t, last) >= interval

dht22_reset_on_error(ok) ==
  IF DhtDue(dht_state, now, dht_last_attempt_ticks, dht_retry_interval)
  THEN /\ dht_state' = IF ok THEN k_dht22_ready ELSE dht_state
       /\ dht_retry_count' = DhtCountAfter(ok, dht_retry_count)
       /\ dht_retry_interval' = DhtIntervalAfter(ok, dht_retry_interval, dht_retry_count)
       /\ dht_last_attempt_ticks' = now
       /\ dht_call' = [op |-> "reset_on_error", ok |-> ok, attempted |-> TRUE]
       /\ UNCHANGED <<pca_vars, mpu_vars, now>>
  ELSE /\ dht_call' = [op |-> "reset_on_error", ok |-> TRUE, attempted |-> FALSE]
       /\ UNCHANGED <<dht_state, dht_retry_count, dht_retry_interval,
                      dht_last_attempt_ticks>>
       /\ UNCHANGED <<pca_vars, mpu_vars, now>>

DhtResetOnError ==
  /\ \E ok \in BOOLEAN : dht22_reset_on_error(ok)
  /\ UNCHANGED conc_vars

(***************************************************************************)
(* Statement-level views: no call is in progress                           *)
(***************************************************************************)
\* No pca9685_init call is being followed.
NoJob == [phase |-> "idle", num_boards |-> 0, i |-> 0, pending |-> {}]

\* No pca9685_set_angle lookup is being followed.
NoLookup == [at |-> "none", board_id |-> 0, node |-> 0]

\* No mpu6050_read call is being followed.
NoRead == [phase |-> "idle", accel |-> NoBlock, gyro |-> NoBlock,
           pending |-> {}, old |-> ZeroReading]

(***************************************************************************)
(* mpu6050_read as another task sees it: the two block reads, then the six *)
(* field stores of lines 225-231, then the state store of line 237.        *)
(***************************************************************************)
ReadingFields == {"accel_x", "accel_y", "accel_z", "gyro_x", "gyro_y", "gyro_z"}

\* Lines 190-209: both blocks are read into local buffers; a failed block
\* read stores k_mpu6050_error and ends the call.
mpu6050_read_begin(fail, accel_data, gyro_data) ==
  /\ mpu_job.phase = "idle"
  /\ mpu_log' = mpu6050_read_log(fail)
  /\ mpu_call' = MpuCall("read", fail, 0, accel_data, gyro_data)
  /\ IF fail.step # "none"
     THEN /\ mpu_state' = k_mpu6050_error
          /\ mpu_job' = mpu_job
     ELSE /\ mpu_state' = mpu_state
          /\ mpu_job' = [phase |-> "store", accel |-> accel_data,
                         gyro |-> gyro_data, pending |-> ReadingFields,
                         old |-> mpu_reading]
  /\ UNCHANGED <<mpu_reading, mpu_ret, mpu_retry_count, mpu_retry_interval,
                 mpu_last_attempt_ticks>>
  /\ UNCHANGED <<pca_vars, dht_vars, now, pca_job, pca_cursor, mpu_pc, bus_healed>>

MpuReadBegin ==
  \E fail \in MpuReadFailures : \E accel_data \in Blocks : \E gyro_data \in Blocks :
    mpu6050_read_begin(fail, accel_data, gyro_data)

\* Lines 225-231: one field store.  The six stores are plain and nothing
\* orders them for another task, so they become visible in any order.
mpu6050_read_store(field) ==
  /\ mpu_job.phase = "store"
  /\ field \in mpu_job.pending
  /\ mpu_reading' =
       [mpu_reading EXCEPT
          ![field] = ConvertReading(mpu_job.accel, mpu_job.gyro)[field]]
  /\ mpu_job' = [mpu_job EXCEPT !.pending = @ \ {field}]
  /\ UNCHANGED <<mpu_state, mpu_ret, mpu_log, mpu_call, mpu_retry_count,
                 mpu_retry_interval, mpu_last_attempt_ticks>>
  /\ UNCHANGED <<pca_vars, dht_vars, now, pca_job, pca_cursor, mpu_pc, bus_healed>>

MpuReadStore == \E field \in ReadingFields : mpu6050_read_store(field)

\* Line 237, after the fields were logged (lines 233-235).
MpuReadCommit ==
  /\ mpu_job.phase = "store"
  /\ mpu_job.pending = {}
  /\ mpu_state' = k_mpu6050_data_updated
  /\ mpu_job' = NoRead
  /\ UNCHANGED <<mpu_reading, mpu_ret, mpu_log, mpu_call, mpu_retry_count,
                 mpu_retry_interval, mpu_last_attempt_ticks>>
  /\ UNCHANGED <<pca_vars, dht_vars, now, pca_job, pca_cursor, mpu_pc, bus_healed>>

\* The device is initialized on a healthy bus before its task starts.
MpuBringUp ==
  /\ mpu_call.op = "none"
  /\ mpu6050_init(MpuNoFail, k_mpu6050_who_am_i_response)
  /\ UNCHANGED conc_vars

(***************************************************************************)
(* pca9685_init statement by statement, with a pca9685_set_angle lookup    *)
(* of another task walking the list at the same time.  Calls of            *)
(* pca9685_init do not overlap each other.                                 *)
(***************************************************************************)
\* The content of malloc'ed memory that no statement has written yet.
Indeterminate == -1

\* Lines 105-109: the four field stores and the store of the head pointer.
PublishStores == {"state", "board_id", "num_boards", "next", "head"}

\* The stores are plain and no barrier or lock separates them, so another
\* task may see them in any order.  The board as another task sees it when
\* the stores in `pending` have not reached it yet.
BoardSoFar(i, num_boards, pending) ==
  [board_id |-> IF "board_id" \in pending THEN Indeterminate ELSE i,
   i2c_bus |-> pca9685_i2c_address + i,
   state |-> IF "state" \in pending THEN "indeterminate" ELSE k_pca9685_ready,
   num_boards |-> IF "num_boards" \in pending THEN Indeterminate ELSE num_boards]

\* Line 32: a call starts.
pca9685_init_call(num_boards) ==
  /\ pca_job.phase = "idle"
  /\ pca_job' = [phase |-> "loop", num_boards |-> num_boards, i |-> 0,
                 pending |-> {}]
  /\ UNCHANGED <<pca_vars, mpu_vars, dht_vars, now>>
  /\ UNCHANGED <<pca_cursor, mpu_job, mpu_pc, bus_healed>>

PcaInitCall == \E num_boards \in 1..MaxBoards : pca9685_init_call(num_boards)

\* Lines 36-102: one turn of the loop up to the end of the bus sequence.
\* `ok` tells whether malloc and every bus step of the unit succeed; on a
\* failure the board is freed and the call returns.
pca9685_init_unit(ok) ==
  /\ pca_job.phase = "loop"
  /\ pca_job' =
       IF pca_job.i >= pca_job.num_boards THEN NoJob
       ELSE IF pca_job.i \in {controller_data[k].board_id :
                                k \in 1..Len(controller_data)}
       THEN [pca_job EXCEPT !.i = @ + 1]
       ELSE IF ok
       THEN [pca_job EXCEPT !.phase = "store", !.pending = PublishStores]
       ELSE NoJob
  /\ UNCHANGED <<pca_vars, mpu_vars, dht_vars, now>>
  /\ UNCHANGED <<pca_cursor, mpu_job, mpu_pc, bus_healed>>

PcaInitUnit == \E ok \in BOOLEAN : pca9685_init_unit(ok)

\* Lines 105-109: one of the five stores reaches memory.
pca9685_init_store(store) ==
  /\ pca_job.phase = "store"
  /\ store \in pca_job.pending
  /\ controller_data' =
       IF store = "head"
       THEN <<BoardSoFar(pca_job.i, pca_job.num_boards, pca_job.pending)>>
              \o controller_data
       ELSE IF "head" \in pca_job.pending
       THEN controller_data
       ELSE [controller_data EXCEPT
               ![1] = BoardSoFar(pca_job.i, pca_job.num_boards,
                                 pca_job.pending \ {store})]
  /\ pca_job' =
       IF pca_job.pending = {store}
       THEN [pca_job EXCEPT !.phase = "loop", !.pending = {}, !.i = @ + 1]
       ELSE [pca_job EXCEPT !.pending = @ \ {store}]
  /\ UNCHANGED <<pca_ret, pca_log, pca_call, mpu_vars, dht_vars, now>>
  /\ UNCHANGED <<pca_cursor, mpu_job, mpu_pc, bus_healed>>

PcaInitStore == \E store \in PublishStores : pca9685_init_store(store)

\* The node the cursor stands on; nodes are counted from the tail of the
\* list, so a number keeps its meaning when a new head is linked in.
NodeAt(list, node) == list[Len(list) - node + 1]

\* The next link of the node has not been stored yet.
NextLinkMissing(node) ==
  /\ pca_job.phase = "store"
  /\ "head" \notin pca_job.pending
  /\ "next" \in pca_job.pending
  /\ node = Len(controller_data)

\* Lines 118-131: the caller passes the head; the range test reads the
\* head's num_boards, whose value decides nothing when it is indeterminate.
pca9685_set_angle_enter(board_id, pass) ==
  /\ pca_cursor.at = "none"
  /\ controller_data # <<>>
  /\ pca_cursor' =
       IF (IF controller_data[1].num_boards = Indeterminate
           THEN pass
           ELSE board_id < controller_data[1].num_boards)
       THEN [at |-> "node", board_id |-> board_id,
             node |-> Len(controller_data)]
       ELSE NoLookup
  /\ UNCHANGED <<pca_vars, mpu_vars, dht_vars, now>>
  /\ UNCHANGED <<pca_job, mpu_job, mpu_pc, bus_healed>>

PcaLookupEnter ==
  \E board_id \in 0..(MaxBoards - 1) : \E pass \in BOOLEAN :
    pca9685_set_angle_enter(board_id, pass)

\* Lines 132-178: one turn of the traversal.  A match ends it; otherwise
\* the next link is followed, which leads anywhere when it was never stored.
pca9685_set_angle_visit(match) ==
  /\ pca_cursor.at \in {"node", "wild"}
  /\ pca_cursor' =
       IF pca_cursor.at = "wild" THEN NoLookup
       ELSE IF (IF NodeAt(controller_data, pca_cursor.node).board_id = Indeterminate
                THEN match
                ELSE NodeAt(controller_data, pca_cursor.node).board_id
                       = pca_cursor.board_id)
       THEN NoLookup
       ELSE IF NextLinkMissing(pca_cursor.node)
       THEN [pca_cursor EXCEPT !.at = "wild", !.node = 0]
       ELSE IF pca_cursor.node = 1 THEN NoLookup
       ELSE [pca_cursor EXCEPT !.node = @ - 1]
  /\ UNCHANGED <<pca_vars, mpu_vars, dht_vars, now>>
  /\ UNCHANGED <<pca_job, mpu_job, mpu_pc, bus_healed>>

PcaLookupVisit == \E match \in BOOLEAN : pca9685_set_angle_visit(match)

(***************************************************************************)
(* mpu6050_tasks: read, recover, delay, for ever (lines 259-267).          *)
(***************************************************************************)
\* Once the bus is healed no transaction fails and WHO_AM_I answers with the
\* expected constant.
BusAllows(fail, who) ==
  bus_healed => (fail.step = "none" /\ who = k_mpu6050_who_am_i_response)

\* Line 263
TaskRead ==
  /\ mpu_pc = "read"
  /\ \E fail \in MpuReadFailures : \E accel_data \in Blocks : \E gyro_data \in Blocks :
       /\ BusAllows(fail, k_mpu6050_who_am_i_response)
       /\ mpu6050_read(fail, accel_data, gyro_data)
  /\ mpu_pc' = "recover"
  /\ UNCHANGED <<pca_job, pca_cursor, mpu_job, bus_healed>>

\* Line 264
TaskRecover ==
  /\ mpu_pc = "recover"
  /\ \E fail \in MpuInitFailures : \E who \in WhoAmIValues :
       /\ BusAllows(fail, who)
       /\ mpu6050_reset_on_error(fail, who)
  /\ mpu_pc' = "delay"
  /\ UNCHANGED <<pca_job, pca_cursor, mpu_job, bus_healed>>

\* Line 265: vTaskDelay; the tick counter is followed up to MaxTick.
TaskDelay ==
  /\ mpu_pc = "delay"
  /\ mpu_pc' = "read"
  /\ now' = Min(now + 1, MaxTick)
  /\ UNCHANGED <<pca_vars, mpu_vars, dht_vars>>
  /\ UNCHANGED <<pca_job, pca_cursor, mpu_job, bus_healed>>

\* The environment: from this step on the bus works.
BusHeals ==
  /\ ~bus_healed
  /\ bus_healed' = TRUE
  /\ UNCHANGED <<pca_vars, mpu_vars, dht_vars, now>>
  /\ UNCHANGED <<pca_job, pca_cursor, mpu_job, mpu_pc>>

(***************************************************************************)
(* Specifications                                                          *)
(***************************************************************************)
Init ==
  /\ controller_data = <<>>
  /\ pca_ret = ESP_OK
  /\ pca_log = <<>>
  /\ pca_call = PcaCall("none", 0, NoFail, 0, 0, 0, 0)
  /\ mpu_state = k_mpu6050_uninitialized
  /\ mpu_reading = ZeroReading
  /\ mpu_retry_count = 0
  /\ mpu_retry_interval = dht22_initial_retry_interval
  /\ mpu_last_attempt_ticks = 0
  /\ mpu_ret = ESP_OK
  /\ mpu_log = <<>>
  /\ mpu_call = MpuCall("none", MpuNoFail, 0, NoBlock, NoBlock)
  /\ dht_state = k_dht22_uninitialized
  /\ dht_retry_count = 0
  /\ dht_retry_interval = dht22_initial_retry_interval
  /\ dht_last_attempt_ticks = 0
  /\ dht_call = [op |-> "none", ok |-> TRUE, attempted |-> FALSE]
  /\ now = 0
  /\ pca_job = NoJob
  /\ pca_cursor = NoLookup
  /\ mpu_job = NoRead
  /\ mpu_pc = "read"
  /\ bus_healed = FALSE

\* The registry and its callers.
NextPca == PcaInit
SpecPca == Init /\ [][NextPca]_vars

\* Start-up on a healthy bus.
PcaBringUp ==
  /\ \E num_boards \in 1..MaxBoards :
        pca9685_init(num_boards, NoFail)
  /\ UNCHANGED conc_vars

\* One channel of board 0 swept over every whole degree.
PcaSweep ==
  /\ \E angle \in 0..MaxAngle :
        pca9685_set_angle(1, 0, angle, NoWriteFail)
  /\ UNCHANGED conc_vars

\* The registry with the command path.
NextPcaCmd == PcaSetup \/ PcaSetAngle
SpecPcaCmd == Init /\ [][NextPcaCmd]_vars

\* The registry while it is built, with a lookup alongside.
NextPcaRace ==
  PcaInitCall \/ PcaInitUnit \/ PcaInitStore \/ PcaLookupEnter \/ PcaLookupVisit
SpecPcaRace == Init /\ [][NextPcaRace]_vars

\* The registry with the angle sweep.
NextPulse == PcaBringUp \/ PcaSweep
SpecPulse == Init /\ [][NextPulse]_vars

\* The MPU6050 device, its task and the tick counter.
NextMpu == MpuInit \/ MpuRead \/ MpuResetOnError \/ Tick
SpecMpu == Init /\ [][NextMpu]_vars

\* The MPU6050 device with its reads seen store by store.
NextMpuObs == MpuBringUp \/ MpuReadBegin \/ MpuReadStore \/ MpuReadCommit
SpecMpuObs == Init /\ [][NextMpuObs]_vars

\* The MPU6050 task loop under a fair scheduler: the task is never held
\* back for ever at any of its three statements.
NextMpuTask == TaskRead \/ TaskRecover \/ TaskDelay \/ BusHeals
SpecMpuTask ==
  /\ Init
  /\ [][NextMpuTask]_vars
  /\ WF_vars(TaskRead)
  /\ WF_vars(TaskRecover)
  /\ WF_vars(TaskDelay)

\* The DHT22 device, its task and the tick counter.
NextDht == DhtInit \/ DhtRead \/ DhtResetOnError \/ Tick
SpecDht == Init /\ [][NextDht]_vars

\* All three together.  The devices share no state, so each is checked
\* under its own specification above.
Next ==
  NextPca \/ NextPcaCmd \/ NextPcaRace \/ NextPulse \/ NextMpu \/ NextMpuObs \/ NextMpuTask
  \/ DhtInit \/ DhtRead \/ DhtResetOnError
Spec == Init /\ [][Next]_vars

(***************************************************************************)
(* Properties of the registry (SpecPca)                                    *)
(***************************************************************************)
BoardIds(list) == {list[k].board_id : k \in 1..Len(list)}

\* An entry of `list` with the given board id.
BoardOf(list, id) == list[CHOOSE k \in 1..Len(list) : list[k].board_id = id]

\* `old` is the tail of `new`: every old entry is kept, unchanged and in
\* the same order, and new entries are only added at the head.
IsTailOf(old, new) ==
  /\ Len(old) <= Len(new)
  /\ SubSeq(new, Len(new) - Len(old) + 1, Len(new)) = old

\* Every id below n is registered.
AllRegistered(list, n) == \A i \in 0..(n - 1) : i \in BoardIds(list)

\* The step is the pca9685_init call that pca_call' records.
PcaInitStep == pca9685_init(pca_call'.num_boards, pca_call'.fail)

NoDuplicateIds ==
  \A j, k \in 1..Len(controller_data) :
    controller_data[j].board_id = controller_data[k].board_id => j = k

AddressIsBasePlusId ==
  \A k \in 1..Len(controller_data) :
    controller_data[k].i2c_bus = pca9685_i2c_address + controller_data[k].board_id

EntriesKept ==
  \A id \in BoardIds(controller_data) :
    /\ id \in BoardIds(controller_data')
    /\ BoardOf(controller_data', id).i2c_bus = BoardOf(controller_data, id).i2c_bus

\* C1: after any sequence of pca9685_init calls (succeeding or failing
\* part-way), no two registry entries share a board id, every entry's bus
\* address is the base address plus its board id, and no step removes an
\* entry or changes the bus address of an entry already present.
C1_RegistryGrowsOnly ==
  /\ [](NoDuplicateIds /\ AddressIsBasePlusId)
  /\ [][EntriesKept]_vars

\* Three units are registered and the last call asked for two: the registry
\* holds exactly ids 0, 1, 2.
C1_Witness ==
  /\ pca_call.op = "init"
  /\ pca_call.num_boards = 2
  /\ BoardIds(controller_data) = {0, 1, 2}
  /\ Len(controller_data) = 3

\* C2: a pca9685_init call whose ids are all registered already reports
\* success, issues no bus transaction and leaves the registry (entries,
\* their fields and their order) as it was.
C2_ReinitIsNoOp ==
  [][(PcaInitStep /\ AllRegistered(controller_data, pca_call'.num_boards))
       => (/\ pca_ret' = ESP_OK
           /\ pca_log' = <<>>
           /\ controller_data' = controller_data)]_vars

\* A call for two units, both registered before it: nothing was written to
\* the bus although the environment would have failed unit 0.
C2_Witness ==
  /\ pca_call.op = "init"
  /\ pca_call.num_boards = 2
  /\ pca_call.fail.unit = 0
  /\ pca_ret = ESP_OK
  /\ pca_log = <<>>
  /\ Len(controller_data) >= 2

\* Unit i is initialized by this call and one of its steps fails.
UnitFails(list, call) ==
  /\ call.fail.unit \in 0..(call.num_boards - 1)
  /\ call.fail.unit \notin BoardIds(list)

\* C3: when the initialization of unit i fails inside pca9685_init, the call
\* returns that step's error, unit i is not in the registry, nothing of a
\* unit with a larger id was attempted (no transaction to its address, no
\* entry for it), and the registry before the call is kept as the tail of
\* the registry after it.
C3_FailureStopsAtUnit ==
  [][(PcaInitStep /\ UnitFails(controller_data, pca_call'))
       => (/\ pca_ret' = pca_call'.fail.err
           /\ pca_ret' # ESP_OK
           /\ pca_call'.fail.unit \notin BoardIds(controller_data')
           /\ \A k \in 1..Len(pca_log') :
                pca_log'[k].addr <= pca9685_i2c_address + pca_call'.fail.unit
           /\ \A id \in BoardIds(controller_data') \ BoardIds(controller_data) :
                id < pca_call'.fail.unit
           /\ IsTailOf(controller_data, controller_data'))]_vars

\* The restart write of unit 1 failed in a call that had registered unit 0.
C3_Witness ==
  /\ pca_call.op = "init"
  /\ pca_call.num_boards = 3
  /\ pca_call.fail.unit = 1
  /\ pca_call.fail.step = "restart"
  /\ pca_ret = pca_call.fail.err
  /\ BoardIds(controller_data) = {0}
  /\ Len(pca_log) = 10

(***************************************************************************)
(* Properties of the MPU6050 device (SpecMpu)                              *)
(***************************************************************************)
\* The step is the mpu6050_read call that mpu_call' records.
MpuReadStep == mpu6050_read(mpu_call'.fail, mpu_call'.accel, mpu_call'.gyro)

\* The step is the mpu6050_reset_on_error call that mpu_call' records.
MpuResetStep == mpu6050_reset_on_error(mpu_call'.fail, mpu_call'.who)

\* The two's-complement value of the 16-bit word hi:lo.
Signed16(hi, lo) == ((hi * 256 + lo + 32768) % 65536) - 32768

\* The field holds raw / (scale_x10 / 10).
HoldsQuotient(field, raw, scale_x10) ==
  /\ field.den > 0
  /\ field.num * scale_x10 = raw * 10 * field.den

\* All six fields hold the values of the two register blocks.
ReadingIsOf(reading, accel_data, gyro_data) ==
  /\ HoldsQuotient(reading.accel_x, Signed16(accel_data[1], accel_data[2]), mpu6050_accel_scale_x10)
  /\ HoldsQuotient(reading.accel_y, Signed16(accel_data[3], accel_data[4]), mpu6050_accel_scale_x10)
  /\ HoldsQuotient(reading.accel_z, Signed16(accel_data[5], accel_data[6]), mpu6050_accel_scale_x10)
  /\ HoldsQuotient(reading.gyro_x, Signed16(gyro_data[1], gyro_data[2]), mpu6050_gyro_scale_x10)
  /\ HoldsQuotient(reading.gyro_y, Signed16(gyro_data[3], gyro_data[4]), mpu6050_gyro_scale_x10)
  /\ HoldsQuotient(reading.gyro_z, Signed16(gyro_data[5], gyro_data[6]), mpu6050_gyro_scale_x10)

\* C4: whenever both block reads of mpu6050_read succeed, the call ends in
\* state updated with all six reading fields computed from the bytes of
\* that read, whatever the reading was before.
C4_ReadSuccessUpdatesAll ==
  [][(MpuReadStep /\ mpu_call'.fail.step = "none")
       => (/\ mpu_state' = k_mpu6050_data_updated
           /\ ReadingIsOf(mpu_reading', mpu_call'.accel, mpu_call'.gyro))]_vars

\* A successful read of two different non-zero blocks: accel_y is -16 g
\* (raw 0x8000) and gyro_x is 32767 / 16.4 deg/s (raw 0x7FFF).
C4_Witness ==
  /\ mpu_call.op = "read"
  /\ mpu_call.fail.step = "none"
  /\ mpu_call.accel = <<0, 1, 128, 0, 255, 255>>
  /\ mpu_call.gyro = <<127, 255, 8, 0, 248, 0>>
  /\ mpu_state = k_mpu6050_data_updated
  /\ mpu_reading.accel_y = [num |-> -16, den |-> 1]
  /\ mpu_reading.gyro_x = [num |-> 163835, den |-> 82]

\* C5: whenever one of the block reads of mpu6050_read fails, the call ends
\* in state error and the six reading fields are what they were before the
\* call, also when the accelerometer block had been read.
C5_ReadFailureKeepsReading ==
  [][(MpuReadStep /\ mpu_call'.fail.step # "none")
       => (/\ mpu_state' = k_mpu6050_error
           /\ mpu_reading' = mpu_reading)]_vars

\* The gyroscope read failed after the accelerometer block was read; the
\* reading is an earlier, different one.
C5_Witness ==
  /\ mpu_call.op = "read"
  /\ mpu_call.fail.step = "gyro"
  /\ mpu_state = k_mpu6050_error
  /\ mpu_call.accel = <<0, 1, 128, 0, 255, 255>>
  /\ mpu_reading = ConvertReading(<<127, 255, 8, 0, 248, 0>>, <<0, 1, 128, 0, 255, 255>>)

\* The named error states.
MpuErrorVariants ==
  {k_mpu6050_error, k_mpu6050_power_on_error, k_mpu6050_reset_error}

\* C6: when every configuration write succeeds and the WHO_AM_I read
\* succeeds but delivers a value other than the expected constant,
\* mpu6050_init reports a failure and leaves the device in an error state.
C6_IdentityMismatchReported ==
  (/\ mpu_call.op = "init"
   /\ mpu_call.fail.step = "none"
   /\ mpu_call.who # k_mpu6050_who_am_i_response)
    => (mpu_ret # ESP_OK /\ mpu_state \in MpuErrorVariants)

\* The register transactions of mpu6050_init (everything after the bus
\* configuration).
MpuRegisterSteps ==
  {"power_on", "reset", "wake", "smplrt_div", "dlpf", "gyro_config",
   "accel_config", "who_am_i"}

\* C7: whenever mpu6050_init fails at one of its register transactions
\* (power-on, reset, wake, sample rate, filter, gyro range, accel range,
\* identity read), the state after the call is an error variant, never
\* uninitialized, ready or updated.
C7_InitFailureLeavesError ==
  (mpu_call.op = "init" /\ mpu_call.fail.step \in MpuRegisterSteps)
    => mpu_state \in MpuErrorVariants

(***************************************************************************)
(* Properties of the recovery controller                                   *)
(***************************************************************************)
mpu_bookkeeping == <<mpu_retry_count, mpu_retry_interval, mpu_last_attempt_ticks>>

\* C8: for a device in an error state, a recovery call made when less than
\* retry_interval ticks have elapsed since last_attempt_ticks issues no bus
\* transaction and changes neither state nor bookkeeping; a call made when
\* at least retry_interval ticks have elapsed attempts re-initialization.
\* Stated of mpu6050_reset_on_error.
C8_RecoveryWaitsForInterval ==
  [][(MpuResetStep /\ mpu_state \in MpuErrorVariants)
       => IF Elapsed(now, mpu_last_attempt_ticks) < mpu_retry_interval
          THEN /\ mpu_log' = <<>>
               /\ UNCHANGED <<mpu_state, mpu_bookkeeping>>
          ELSE mpu_log' # <<>>]_vars

\* C9: every failed re-initialization attempt increments retry_count and
\* sets last_attempt_ticks to the current time; when the count reaches the
\* max-retries threshold the interval doubles once (capped) and the count
\* returns to 0, and below the threshold the interval is kept.  Stated of
\* mpu6050_reset_on_error.
C9_FailedAttemptAdvancesBookkeeping ==
  [][(MpuResetStep /\ mpu_state \in MpuErrorVariants /\ mpu_ret' # ESP_OK)
       => (/\ mpu_last_attempt_ticks' = now
           /\ IF mpu_retry_count + 1 >= dht22_max_retries
              THEN /\ mpu_retry_count' = 0
                   /\ mpu_retry_interval' =
                        Min(mpu_retry_interval * 2, dht22_max_backoff_interval)
              ELSE /\ mpu_retry_count' = mpu_retry_count + 1
                   /\ mpu_retry_interval' = mpu_retry_interval)]_vars

\* C10: across any sequence of recovery calls retry_interval stays between
\* its initial value and the configured maximum; every step leaves it
\* unchanged, doubles it up to the cap, or resets it to the initial value;
\* a successful re-initialization resets interval and retry_count together,
\* and the interval never shrinks in any other step.
C10_IntervalHoldsDoublesOrResets ==
  /\ [](/\ dht22_initial_retry_interval <= dht_retry_interval
        /\ dht_retry_interval <= dht22_max_backoff_interval)
  /\ [][dht_retry_interval' \in
          {dht_retry_interval,
           Min(dht_retry_interval * 2, dht22_max_backoff_interval),
           dht22_initial_retry_interval}]_vars
  /\ [][(DhtResetOnError /\ dht_call'.attempted /\ dht_call'.ok)
          => (/\ dht_retry_interval' = dht22_initial_retry_interval
              /\ dht_retry_count' = 0)]_vars
  /\ [][dht_retry_interval' < dht_retry_interval
          => (/\ DhtResetOnError
              /\ dht_call'.attempted /\ dht_call'.ok
              /\ dht_state' = k_dht22_ready
              /\ dht_retry_count' = 0)]_vars

\* The interval has been doubled up to the cap by a failed attempt that
\* reached the threshold.
C10_Witness ==
  /\ dht_call.op = "reset_on_error"
  /\ dht_call.attempted
  /\ ~dht_call.ok
  /\ dht_state = k_dht22_error
  /\ dht_retry_interval = dht22_max_backoff_interval
  /\ dht_retry_interval > dht22_initial_retry_interval
  /\ dht_retry_count = 0
  /\ dht_last_attempt_ticks = now

(***************************************************************************)
(* Properties of the device state machine                                  *)
(***************************************************************************)
\* The states that are not error variants.
MpuNonErrorStates ==
  {k_mpu6050_uninitialized, k_mpu6050_ready, k_mpu6050_data_updated}

\* C11: a recovery call on a device whose state is not an error variant
\* (uninitialized, ready or updated) issues no bus transaction and leaves
\* state, reading and retry bookkeeping unchanged.  Stated of
\* mpu6050_reset_on_error.
C11_RecoveryIgnoresNonError ==
  [][(MpuResetStep /\ mpu_state \in MpuNonErrorStates)
       => (/\ mpu_log' = <<>>
           /\ UNCHANGED <<mpu_state, mpu_reading, mpu_bookkeeping>>)]_vars

\* The named states of mpu6050_states_t that mpu6050_hal.c uses.
MpuNamedStates == MpuNonErrorStates \cup MpuErrorVariants

\* C12: at every observation point (between any two of init, read and
\* recover, in any order and with any transaction outcomes) the state of the
\* device is exactly one of the named states; no other value and no
\* combination of two values is observable.
C12_StateIsNamed == mpu_state \in MpuNamedStates

\* A re-initialization whose power-on write failed left the reset error.
C12_Witness ==
  /\ mpu_call.op = "reset_on_error"
  /\ mpu_call.fail.step = "power_on"
  /\ mpu_state = k_mpu6050_reset_error

(***************************************************************************)
(* Claims about pca9685_set_angle                                          *)
(***************************************************************************)
\* The step is the pca9685_set_angle call that pca_call' records.
PcaSetAngleStep ==
  pca9685_set_angle(pca_call'.motor_mask, pca_call'.board_id, pca_call'.angle,
                    [at |-> pca_call'.fail_at, err |-> pca_call'.fail.err])

\* The channels a mask selects.
MaskChannels(motor_mask) ==
  {c \in 0..15 : (motor_mask \div (2 ^ c)) % 2 = 1}

\* The channels whose ON_L command appears in a log.
WrittenChannels(log) ==
  {log[i].val \div 4 : i \in {j \in 1..Len(log) : log[j].what = "on_l_cmd"}}

\* The OFF count sent in the k-th group of three writes of a log.
OffCount(log, k) == log[3 * k - 1].val + 256 * log[3 * k].val

\* Original statement of C13: a board id that is not registered is answered
\* with "not found" and no bus transaction, the empty registry and an id at
\* or past the number of boards included.
C13_AbsentBoardIsNotFound ==
  [][(PcaSetAngleStep /\ pca_call'.board_id \notin BoardIds(controller_data))
       => (pca_ret' = ESP_ERR_NOT_FOUND /\ pca_log' = <<>>)]_vars

\* C13: pca9685_set_angle for a board id that is not registered issues no bus
\* transaction and leaves the registry alone; it returns ESP_ERR_INVALID_ARG
\* when the registry is empty or the id is at or past the head entry's
\* num_boards, and ESP_ERR_NOT_FOUND otherwise.
C13_AbsentBoardRejected ==
  [][(PcaSetAngleStep /\ pca_call'.board_id \notin BoardIds(controller_data))
       => (/\ pca_log' = <<>>
           /\ controller_data' = controller_data
           /\ pca_ret' =
                IF controller_data = <<>>
                THEN ESP_ERR_INVALID_ARG
                ELSE IF pca_call'.board_id >= controller_data[1].num_boards
                THEN ESP_ERR_INVALID_ARG
                ELSE ESP_ERR_NOT_FOUND)]_vars

\* Board 0 is registered by a call for three boards that failed at unit 1,
\* and board 2 is asked for.
C13_Witness ==
  /\ pca_call.op = "set_angle"
  /\ pca_call.board_id = 2
  /\ BoardIds(controller_data) = {0}
  /\ controller_data[1].num_boards = 3
  /\ pca_ret = ESP_ERR_NOT_FOUND
  /\ pca_log = <<>>

C16_AngleOutOfRangeRejected ==
  [][(PcaSetAngleStep /\ pca_call'.angle \notin 0..180)
       => (pca_ret' # ESP_OK /\ pca_log' = <<>>)]_vars

\* The call recorded in pca_call wrote one channel and succeeded.
WroteOneChannel ==
  /\ pca_call.op = "set_angle"
  /\ pca_ret = ESP_OK
  /\ Len(pca_log) = 3

\* C17: over the whole degrees 0..180 the OFF count pca9685_set_angle sends
\* grows strictly with the angle, is 4095 at 180 degrees and never exceeds
\* 12 bits.
C17_DutyStrictlyMonotonic ==
  [][(/\ PcaSetAngleStep
      /\ WroteOneChannel
      /\ WroteOneChannel'
      /\ pca_call.angle \in 0..180
      /\ pca_call'.angle \in 0..180)
       => (/\ pca_call.angle < pca_call'.angle
             => OffCount(pca_log, 1) < OffCount(pca_log', 1)
           /\ pca_call.angle > pca_call'.angle
             => OffCount(pca_log, 1) > OffCount(pca_log', 1)
           /\ OffCount(pca_log', 1) \in 0..(2 ^ 12 - 1)
           /\ pca_call'.angle = 180 => OffCount(pca_log', 1) = 4095
           /\ pca_call'.angle = 0 => OffCount(pca_log', 1) = 0)]_vars

\* The sweep reaches 180 degrees and sends the full count.
C17_Witness ==
  /\ WroteOneChannel
  /\ pca_call.angle = 180
  /\ OffCount(pca_log, 1) = 4095

(***************************************************************************)
(* Claims about the MPU6050 state transitions                              *)
(***************************************************************************)
\* The call recorded in mpu_call ran the initialization sequence on the bus.
MpuInitSequenceRan ==
  /\ mpu_call.op \in {"init", "reset_on_error"}
  /\ mpu_log # <<>>

\* C18: an MPU6050 left in the ready state by an initialization sequence,
\* run by mpu6050_init or by mpu6050_reset_on_error, has passed identity
\* verification in that sequence: no transaction failed and the WHO_AM_I
\* read returned the expected constant.
C18_ReadyMeansIdentityVerified ==
  (MpuInitSequenceRan /\ mpu_state = k_mpu6050_ready)
    => (/\ mpu_call.fail.step = "none"
        /\ mpu_call.who = k_mpu6050_who_am_i_response)

\* C19: the state becomes updated only through a read made in the ready or
\* the updated state, and a read made in the uninitialized state or in an
\* error state leaves the state as it is.
C19_OnlyListedTransitions ==
  [][/\ (mpu_state' = k_mpu6050_data_updated
           /\ mpu_state # k_mpu6050_data_updated)
          => (MpuReadStep /\ mpu_state = k_mpu6050_ready)
     /\ (MpuReadStep
           /\ mpu_state \in {k_mpu6050_uninitialized} \cup MpuErrorVariants)
          => mpu_state' = mpu_state]_vars

\* C20: a re-initialization that mpu6050_reset_on_error attempts for a device
\* in an error state and that fails leaves the state and the reading as they
\* were before the call.
C20_FailedReinitKeepsState ==
  [][(/\ MpuResetStep
      /\ mpu_state \in MpuErrorVariants
      /\ mpu_log' # <<>>
      /\ mpu_ret' # ESP_OK)
       => (mpu_state' = mpu_state /\ mpu_reading' = mpu_reading)]_vars

(***************************************************************************)
(* Claims about the reading, the task loop and the initialization order    *)
(***************************************************************************)
\* C21: the six fields of the reading change only in a successful
\* mpu6050_read, the operation that sets state to updated; mpu6050_init,
\* mpu6050_reset_on_error and a failed read leave the reading as it was.
C21_ReadingChangesOnlyInRead ==
  [][mpu_reading' # mpu_reading
       => (MpuReadStep /\ mpu_state' = k_mpu6050_data_updated)]_vars

\* The step is the mpu6050_init call that mpu_call' records.
MpuInitStep == mpu6050_init(mpu_call'.fail, mpu_call'.who)

\* The bus transactions of a log: everything but the driver installation.
BusTransactions(log) == SelectSeq(log, LAMBDA s : s # "i2c_init")

IsPrefixOf(s, t) == Len(s) <= Len(t) /\ SubSeq(t, 1, Len(s)) = s

InitOrder ==
  <<"power_on", "reset", "wake", "smplrt_div", "dlpf", "gyro_config",
    "accel_config", "who_am_i">>

\* C23: mpu6050_init issues its bus transactions in the order power-on,
\* reset, wake, sample-rate divider, low-pass filter, gyro range, accel
\* range, identity read; the first transaction that fails is the last one
\* issued and its error is the value returned.
C23_InitOrderAndShortCircuit ==
  [][MpuInitStep
       => (/\ IsPrefixOf(BusTransactions(mpu_log'), InitOrder)
           /\ mpu_call'.fail.step = "none"
                => (BusTransactions(mpu_log') = InitOrder /\ mpu_ret' = ESP_OK)
           /\ mpu_call'.fail.step = "i2c_init"
                => BusTransactions(mpu_log') = <<>>
           /\ mpu_call'.fail.step # "none"
                => (/\ mpu_log'[Len(mpu_log')] = mpu_call'.fail.step
                    /\ mpu_ret' = mpu_call'.fail.err
                    /\ mpu_ret' # ESP_OK))]_vars

\* The low-pass filter write times out: five transactions were issued, the
\* last of them the filter write, and the time-out is returned.
C23_Witness ==
  /\ mpu_call.op = "init"
  /\ mpu_call.fail.step = "dlpf"
  /\ BusTransactions(mpu_log)
       = <<"power_on", "reset", "wake", "smplrt_div", "dlpf">>
  /\ mpu_ret = ESP_ERR_TIMEOUT

(***************************************************************************)
(* Claims about the shape of the registry                                  *)
(***************************************************************************)
\* C26: after any sequence of pca9685_init calls the registered board ids
\* are exactly 0..n-1, the num_boards stored in the head entry is greater
\* than every registered id, and pca9685_set_angle does not answer the id of
\* a registered board with ESP_ERR_INVALID_ARG.
C26_IdsContiguousBelowHeadCount ==
  /\ BoardIds(controller_data) = 0..(Len(controller_data) - 1)
  /\ \A k \in 1..Len(controller_data) :
       controller_data[1].num_boards > controller_data[k].board_id
  /\ (pca_call.op = "set_angle"
        /\ pca_call.board_id \in BoardIds(controller_data))
       => pca_ret # ESP_ERR_INVALID_ARG

\* A call for two boards failed at unit 1, a later call for three boards
\* added board 1 and failed at unit 2; board 0, the oldest entry, is then
\* commanded successfully.
C26_Witness ==
  /\ Len(controller_data) = 2
  /\ controller_data[1].num_boards = 3
  /\ controller_data[2].num_boards = 2
  /\ pca_call.op = "set_angle"
  /\ pca_call.board_id = 0
  /\ pca_ret = ESP_OK

(***************************************************************************)
(* Claims about tasks that run side by side                                *)
(***************************************************************************)
\* C24: whenever the state is updated, the six fields of the reading belong
\* to one sample: while an mpu6050_read is storing its fields the reading is
\* still the one before the call or already wholly the new one.
C24_UpdatedReadingIsOneSample ==
  (mpu_state = k_mpu6050_data_updated /\ mpu_job.phase = "store")
    => \/ mpu_reading = mpu_job.old
       \/ mpu_reading = ConvertReading(mpu_job.accel, mpu_job.gyro)

\* C22: under the fair task loop, once the bus works for good a device in
\* an error state is eventually re-initialized to ready and then reaches
\* updated.
C22_RecoveryReachesReady ==
  /\ (bus_healed /\ mpu_state \in MpuErrorVariants)
       ~> (mpu_state = k_mpu6050_ready)
  /\ (bus_healed /\ mpu_state = k_mpu6050_ready)
       ~> (mpu_state = k_mpu6050_data_updated)

=============================================================================
